---- MODULE Spec2Model ----
(***************************************************************************)
(* Infrastructure health monitor                                           *)
(* (src/automation/python/monitoring/infrastructure_monitor.py).           *)
(*                                                                         *)
(* The model follows InfrastructureMonitor: the three network probes, the  *)
(* system-resource check, the thread-pool scan of run_health_checks,       *)
(* generate_alerts, send_notifications and run_monitoring_loop.            *)
(* Dictionaries are records with a "keys" field naming the keys that are   *)
(* present, so that d['k'] on a missing key is a KeyError as in Python.    *)
(* The environment (what each target answers, what psutil reads) is chosen *)
(* in Init and stays the same over the cycles of one behaviour; the        *)
(* outcome of each notification send is chosen at every dispatch.          *)
(***************************************************************************)
EXTENDS Integers, Sequences, FiniteSets, TLC

VARIABLES
    args,          \* the command line main() parsed: [once, output]
    output,        \* what main() has printed
    config,        \* self.config
    env,           \* what the outside world answers: [probes, sys]
    loop,          \* position of the main thread
    cycle,         \* number of scans started (also the logical clock)
    futures,       \* state of each future submitted to the executor
    checks,        \* local list "checks" of run_health_checks
    health_checks, \* self.health_checks
    cycle_alerts,  \* local list "alerts" of run_monitoring_loop
    alerts,        \* self.alerts
    sent,          \* what the last dispatch did on each channel
    last_error,    \* where the exception caught by the loop came from
    failures,      \* number of cycles that ended in the except clause
    delay,         \* argument of the time.sleep the loop is in
    interrupted    \* a KeyboardInterrupt has been delivered

vars == <<args, output, config, env, loop, cycle, futures, checks, health_checks,
          cycle_alerts, alerts, sent, last_error, failures, delay, interrupted>>

\* ------------------------------------------------------------------ bounds

MaxProbes == 2
MaxCycles == 2
MaxBatch == 3
MaxAlerts == 11

\* ------------------------------------------------------- program constants

max_workers == 10
default_timeout == 10
default_expected_status == 200
default_ssl_port == 443
backoff_seconds == 30
db_slow_ms == 1000
cert_critical_days == 7
cert_warning_days == 30
hours_per_day == 24
slack_text_limit == 10

HEALTHY == "healthy"
WARNING == "warning"
CRITICAL == "critical"
UNKNOWN == "unknown"
HealthStatus == {HEALTHY, WARNING, CRITICAL, UNKNOWN}

\* ------------------------------------------------------------ dictionaries

Has(d, k) == k \in d.keys
Get(d, k, default) == IF Has(d, k) THEN d[k] ELSE default

\* ------------------------------------------------------------- data types

\* f"{prefix} - {scheme}://{target}:{port}", kept as its parts.
Name(prefix, scheme, target, port) ==
    [prefix |-> prefix, scheme |-> scheme, target |-> target, port |-> port]

\* A formatted message, kept as its fixed text, its number and its error string.
Message(text, arg, err) == [text |-> text, arg |-> arg, err |-> err]

\* details is reduced to its 'error' entry ("" when the key is absent).
HealthCheck(name, status, message, timestamp, error) ==
    [name |-> name, status |-> status, message |-> message,
     timestamp |-> timestamp, details |-> [error |-> error]]

Alert(level, message, timestamp, details) ==
    [level |-> level, message |-> message, timestamp |-> timestamp,
     source |-> "infrastructure_monitor", details |-> details]

\* What a call gives back: a value, an exception, or nothing (it blocks).
Returned(v) == [outcome |-> "returned", value |-> <<v>>, exc |-> ""]
Raised(e) == [outcome |-> "raised", value |-> <<>>, exc |-> e]
Blocked == [outcome |-> "blocked", value |-> <<>>, exc |-> ""]

\* ----------------------------------------------------------- configuration

threshold_keys ==
    {"response_time_warning", "response_time_critical", "cpu_warning", "cpu_critical",
     "memory_warning", "memory_critical", "disk_warning", "disk_critical"}

default_thresholds ==
    [keys |-> threshold_keys,
     response_time_warning |-> 1000, response_time_critical |-> 5000,
     cpu_warning |-> 80, cpu_critical |-> 95,
     memory_warning |-> 85, memory_critical |-> 95,
     disk_warning |-> 80, disk_critical |-> 90]

default_config ==
    [checks |-> [http_endpoints |-> <<>>, databases |-> <<>>, ssl_certificates |-> <<>>],
     thresholds |-> default_thresholds,
     notifications |-> [keys |-> {"email", "slack"},
                        email |-> [enabled |-> FALSE],
                        slack |-> [enabled |-> FALSE]],
     monitoring_interval |-> 60,
     log_level |-> "INFO"]

extend_front(list, items) == items \o list

\* list.extend
extend(list, items) == list \o items

\* The behaviour of a target: kind, and the numbers that go with it.
\* "value" is the response time in milliseconds of an HTTP or database
\* target, and the hours left until expiry of a certificate.
Beh(kind, status_code, value, error) ==
    [kind |-> kind, status_code |-> status_code, value |-> value, error |-> error]


\* ------------------------------------------------------------------ probes

check_http_endpoint_status_unchecked(endpoint, thresholds, beh, now) ==
    IF beh.kind = "no_module" THEN Raised("ModuleNotFoundError")
    ELSE IF ~Has(endpoint, "url") THEN Raised("KeyError")
    ELSE
      LET name == Name("HTTP", "", endpoint.url, 0)
          response_time == beh.value
      IN  IF beh.kind = "response"
          THEN IF response_time > thresholds.response_time_critical
               THEN Returned(HealthCheck(name, CRITICAL,
                        Message("Slow response", response_time, ""), now, ""))
               ELSE IF response_time > thresholds.response_time_warning
               THEN Returned(HealthCheck(name, WARNING,
                        Message("Slow response", response_time, ""), now, ""))
               ELSE Returned(HealthCheck(name, HEALTHY,
                        Message("OK", response_time, ""), now, ""))
          ELSE Returned(HealthCheck(name, CRITICAL,
                   Message("Error", 0, beh.error), now, beh.error))

check_http_endpoint(endpoint, thresholds, beh, now) ==
    IF beh.kind = "no_module" THEN Raised("ModuleNotFoundError")
    ELSE IF ~Has(endpoint, "url") THEN Raised("KeyError")
    ELSE
      LET url == endpoint.url
          timeout == Get(endpoint, "timeout", default_timeout)
          expected_status == Get(endpoint, "expected_status", default_expected_status)
          name == Name("HTTP", "", url, 0)
          response_time == beh.value
      IN  CASE beh.kind = "response" ->
                 IF beh.status_code = expected_status
                 THEN IF ~Has(thresholds, "response_time_critical")
                      THEN Returned(HealthCheck(name, CRITICAL,
                               Message("Error", 0, "'response_time_critical'"), now,
                               "'response_time_critical'"))
                      ELSE IF response_time > thresholds.response_time_critical
                      THEN Returned(HealthCheck(name, CRITICAL,
                               Message("Slow response", response_time, ""), now, ""))
                      ELSE IF ~Has(thresholds, "response_time_warning")
                      THEN Returned(HealthCheck(name, CRITICAL,
                               Message("Error", 0, "'response_time_warning'"), now,
                               "'response_time_warning'"))
                      ELSE IF response_time > thresholds.response_time_warning
                      THEN Returned(HealthCheck(name, WARNING,
                               Message("Slow response", response_time, ""), now, ""))
                      ELSE Returned(HealthCheck(name, HEALTHY,
                               Message("OK", response_time, ""), now, ""))
                 ELSE Returned(HealthCheck(name, CRITICAL,
                          Message("Unexpected status code", beh.status_code, ""), now, ""))
            [] beh.kind = "timeout" ->
                 Returned(HealthCheck(name, CRITICAL,
                     Message("Timeout after", timeout, ""), now, "timeout"))
            [] beh.kind = "connection_error" ->
                 Returned(HealthCheck(name, CRITICAL,
                     Message("Connection failed", 0, ""), now, "connection_failed"))
            [] OTHER ->
                 Returned(HealthCheck(name, CRITICAL,
                     Message("Error", 0, beh.error), now, beh.error))

supported_db_types == {"postgresql", "mysql", "redis"}

\* What the try block of check_database_connection ends with: the elapsed
\* milliseconds, an exception with its text, or no end at all.
db_try(db_config, beh) ==
    LET db_type == db_config.type
    IN  IF db_type \notin supported_db_types
        THEN Raised("Unsupported database type")
        ELSE IF beh.kind = "no_module" THEN Raised("No module named")
        ELSE IF db_type # "redis" /\ ~Has(db_config, "username") THEN Raised("'username'")
        ELSE IF db_type # "redis" /\ ~Has(db_config, "password") THEN Raised("'password'")
        ELSE IF beh.kind \in {"exception", "timeout"} THEN Raised(beh.error)
        \* connect_timeout bounds the connection only: a server that accepts it
        \* and never answers SELECT 1 keeps cursor.execute waiting; redis has
        \* socket_timeout on every read.
        ELSE IF beh.kind = "no_reply" /\ db_type = "redis" THEN Raised("timed out")
        ELSE IF beh.kind = "no_reply" THEN Blocked
        ELSE Returned(beh.value)

check_database_connection(db_config, beh, now) ==
    IF ~Has(db_config, "type") \/ ~Has(db_config, "host") \/ ~Has(db_config, "port")
    THEN Raised("KeyError")
    ELSE
      LET name == Name("DB", db_config.type, db_config.host, db_config.port)
          t == db_try(db_config, beh)
      IN  CASE t.outcome = "blocked" -> Blocked
            [] t.outcome = "raised" ->
                 Returned(HealthCheck(name, CRITICAL,
                     Message("Connection failed", 0, t.exc), now, t.exc))
            [] OTHER ->
                 LET response_time == t.value[1]
                 IN  IF response_time > db_slow_ms
                     THEN Returned(HealthCheck(name, WARNING,
                              Message("Slow connection", response_time, ""), now, ""))
                     ELSE Returned(HealthCheck(name, HEALTHY,
                              Message("Connected", response_time, ""), now, ""))

days_rounded(hours) == (2 * hours + hours_per_day) \div (2 * hours_per_day)

\* timedelta.days of a difference given in hours: the whole days, rounded down
days(hours) == hours \div hours_per_day

check_ssl_certificate_unknown_on_failure(cert_config, beh, now) ==
    IF ~Has(cert_config, "hostname") THEN Raised("KeyError")
    ELSE
      LET name == Name("SSL", "", cert_config.hostname,
                       Get(cert_config, "port", default_ssl_port))
          days_until_expiry == days(beh.value)
      IN  IF beh.kind = "certificate"
          THEN IF days_until_expiry < cert_critical_days
               THEN Returned(HealthCheck(name, CRITICAL,
                        Message("Certificate expires in", days_until_expiry, ""), now, ""))
               ELSE IF days_until_expiry < cert_warning_days
               THEN Returned(HealthCheck(name, WARNING,
                        Message("Certificate expires in", days_until_expiry, ""), now, ""))
               ELSE Returned(HealthCheck(name, HEALTHY,
                        Message("Certificate valid for", days_until_expiry, ""), now, ""))
          ELSE Returned(HealthCheck(name, UNKNOWN,
                   Message("SSL check failed", 0, beh.error), now, beh.error))

check_ssl_certificate(cert_config, beh, now) ==
    IF ~Has(cert_config, "hostname") THEN Raised("KeyError")
    ELSE
      LET name == Name("SSL", "", cert_config.hostname,
                       Get(cert_config, "port", default_ssl_port))
          days_until_expiry == days(beh.value)
      IN  IF beh.kind = "certificate"
          THEN IF days_until_expiry < cert_critical_days
               THEN Returned(HealthCheck(name, CRITICAL,
                        Message("Certificate expires in", days_until_expiry, ""), now, ""))
               ELSE IF days_until_expiry < cert_warning_days
               THEN Returned(HealthCheck(name, WARNING,
                        Message("Certificate expires in", days_until_expiry, ""), now, ""))
               ELSE Returned(HealthCheck(name, HEALTHY,
                        Message("Certificate valid for", days_until_expiry, ""), now, ""))
          ELSE Returned(HealthCheck(name, CRITICAL,
                   Message("SSL check failed", 0, beh.error), now, beh.error))

\* status of a utilisation percentage num/den against (warning, critical)
usage_status(num, den, warning, critical) ==
    IF num > critical * den THEN CRITICAL
    ELSE IF num > warning * den THEN WARNING
    ELSE HEALTHY

\* The comparisons of one reading find the threshold keys they look up: the
\* critical one always, the warning one when the reading is not critical.
thresholds_found(num, den, thresholds, warning, critical) ==
    /\ Has(thresholds, critical)
    /\ (num > thresholds[critical] * den \/ Has(thresholds, warning))

disk_check(partition, thresholds, now) ==
    HealthCheck(Name("System", "Disk Usage", partition.mountpoint, 0),
                usage_status(partition.used * 100, partition.total,
                             thresholds.disk_warning, thresholds.disk_critical),
                Message("Disk usage", (partition.used * 100) \div partition.total, ""),
                now, "")

check_system_resources(thresholds, sys, now) ==
    IF ~sys.psutil THEN Raised("ModuleNotFoundError")
    ELSE
      LET cpu == HealthCheck(Name("System", "CPU Usage", "", 0),
                     usage_status(sys.cpu_percent, 1,
                                  thresholds.cpu_warning, thresholds.cpu_critical),
                     Message("CPU usage", sys.cpu_percent, ""), now, "")
          memory == HealthCheck(Name("System", "Memory Usage", "", 0),
                     usage_status(sys.memory_percent, 1,
                                  thresholds.memory_warning, thresholds.memory_critical),
                     Message("Memory usage", sys.memory_percent, ""), now, "")
          readable == SelectSeq(sys.disk_partitions, LAMBDA p : ~p.denied)
      IN  IF ~thresholds_found(sys.cpu_percent, 1, thresholds, "cpu_warning", "cpu_critical")
             \/ ~thresholds_found(sys.memory_percent, 1, thresholds,
                                  "memory_warning", "memory_critical")
          THEN Raised("KeyError")
          ELSE IF \E i \in 1..Len(readable) : readable[i].total = 0
          THEN Raised("ZeroDivisionError")
          ELSE IF \E i \in 1..Len(readable) :
                     ~thresholds_found(readable[i].used * 100, readable[i].total, thresholds,
                                       "disk_warning", "disk_critical")
          THEN Raised("KeyError")
          ELSE Returned(<<cpu, memory>> \o
                        [i \in 1..Len(readable) |-> disk_check(readable[i], thresholds, now)])


\* ------------------------------------------------------- scan coordinator

\* The probes in the order run_health_checks submits them.
Tag(kind, cfgs) == [i \in 1..Len(cfgs) |-> [kind |-> kind, cfg |-> cfgs[i]]]

Probes(cfg) ==
    Tag("http", cfg.checks.http_endpoints) \o Tag("db", cfg.checks.databases)
        \o Tag("ssl", cfg.checks.ssl_certificates)

NumProbes == Len(Probes(config))

\* What the function submitted for probe i gives back in this environment.
ProbeOutcome(i) ==
    LET p == Probes(config)[i]
        beh == env.probes[i]
    IN  CASE p.kind = "http" -> check_http_endpoint(p.cfg, config.thresholds, beh, cycle)
          [] p.kind = "db" -> check_database_connection(p.cfg, beh, cycle)
          [] OTHER -> check_ssl_certificate(p.cfg, beh, cycle)

Pending == {i \in 1..Len(futures) : futures[i] = "pending"}
Running == {i \in 1..Len(futures) : futures[i] = "running"}

\* The executor's work queue is first in, first out.
NextQueued == CHOOSE i \in Pending : \A j \in Pending : i <= j

WorkerFree_unbounded == TRUE

\* A worker is free to take the next queued call.
WorkerFree == Cardinality(Running) < max_workers

AllCollected_first_completed ==
    futures = <<>> \/ \E i \in 1..Len(futures) : futures[i] = "collected"

\* as_completed has yielded every future and the with block has been left.
AllCollected == \A i \in 1..Len(futures) : futures[i] = "collected"

PoolDrained_without_wait == TRUE

\* shutdown(wait=True): no call is queued or running any more.
PoolDrained == \A i \in 1..Len(futures) : futures[i] \in {"finished", "collected"}

\* ---------------------------------------------------- alerts, notification

generate_alerts_unstamped(cs) ==
    LET hit == SelectSeq(cs, LAMBDA c : c.status \in {WARNING, CRITICAL})
    IN  [i \in 1..Len(hit) |->
            Alert(hit[i].status, [name |-> hit[i].name, message |-> hit[i].message],
                  0, hit[i].details)]

generate_alerts_critical_only(cs) ==
    LET hit == SelectSeq(cs, LAMBDA c : c.status = CRITICAL)
    IN  [i \in 1..Len(hit) |->
            Alert(hit[i].status, [name |-> hit[i].name, message |-> hit[i].message],
                  hit[i].timestamp, hit[i].details)]

generate_alerts(cs) ==
    LET hit == SelectSeq(cs, LAMBDA c : c.status \in {WARNING, CRITICAL})
    IN  [i \in 1..Len(hit) |->
            Alert(hit[i].status, [name |-> hit[i].name, message |-> hit[i].message],
                  hit[i].timestamp, hit[i].details)]

\* One channel's send, given what the SMTP server or the webhook does ("ok" or
\* "failed"): the whole body is inside try/except Exception, which logs.
send_email_notifications_unguarded(result) ==
    [did |-> result, raised |-> result = "failed", logged |-> 0]

send_email_notifications(result) ==
    [did |-> result, raised |-> FALSE, logged |-> IF result = "failed" THEN 1 ELSE 0]

slack_payload_untruncated(as) ==
    [color |-> IF \E j \in 1..Len(as) : as[j].level = CRITICAL THEN "danger" ELSE "warning",
     title |-> Len(as),
     critical |-> Len(SelectSeq(as, LAMBDA a : a.level = CRITICAL)),
     warning |-> Len(SelectSeq(as, LAMBDA a : a.level = WARNING)),
     text |-> [j \in 1..Len(as) |-> as[j].message]]

\* The attachment _send_slack_notifications builds: colour, the number in the
\* title, the two count fields, and the lines of the text.
slack_payload(as) ==
    [color |-> IF \E j \in 1..Len(as) : as[j].level = CRITICAL THEN "danger" ELSE "warning",
     title |-> Len(as),
     critical |-> Len(SelectSeq(as, LAMBDA a : a.level = CRITICAL)),
     warning |-> Len(SelectSeq(as, LAMBDA a : a.level = WARNING)),
     text |-> [j \in 1..(IF Len(as) < slack_text_limit THEN Len(as) ELSE slack_text_limit) |->
                 as[j].message]]

\* The payload is built and posted; a failed post is logged.
send_slack_notifications(as, result) ==
    [did |-> result, raised |-> FALSE, logged |-> IF result = "failed" THEN 1 ELSE 0,
     payload |-> <<slack_payload(as)>>]

Skipped == [did |-> "none", raised |-> FALSE, logged |-> 0, payload |-> <<>>]

\* What a dispatch did: each channel's send, whether an exception left
\* send_notifications, the number of errors logged, and the payload posted to
\* the webhook.
NotSent ==
    [email |-> "none", slack |-> "none", raised |-> FALSE, logged |-> 0, payload |-> <<>>]

send_notifications_ignoring_flags(cfg, as, email_result, slack_result) ==
    IF as = <<>> THEN NotSent
    ELSE LET e == send_email_notifications(email_result)
             k == send_slack_notifications(as, slack_result)
         IN  [email |-> e.did, slack |-> k.did, raised |-> FALSE,
              logged |-> e.logged + k.logged, payload |-> k.payload]

send_notifications_without_empty_check(cfg, as, email_result, slack_result) ==
    IF ~Has(cfg.notifications, "email") THEN [NotSent EXCEPT !.raised = TRUE]
    ELSE
      LET e == IF cfg.notifications.email.enabled
               THEN send_email_notifications(email_result)
               ELSE Skipped
      IN  IF e.raised \/ ~Has(cfg.notifications, "slack")
          THEN [email |-> e.did, slack |-> "none", raised |-> TRUE, logged |-> e.logged,
                payload |-> <<>>]
          ELSE
            LET k == IF cfg.notifications.slack.enabled
                     THEN send_slack_notifications(as, slack_result)
                     ELSE Skipped
            IN  [email |-> e.did, slack |-> k.did, raised |-> k.raised,
                 logged |-> e.logged + k.logged, payload |-> k.payload]

\* send_notifications(alerts) with the outcome of each channel's send.
send_notifications(cfg, as, email_result, slack_result) ==
    IF as = <<>> THEN NotSent
    ELSE IF ~Has(cfg.notifications, "email") THEN [NotSent EXCEPT !.raised = TRUE]
    ELSE
      LET e == IF cfg.notifications.email.enabled
               THEN send_email_notifications(email_result)
               ELSE Skipped
      IN  IF e.raised \/ ~Has(cfg.notifications, "slack")
          THEN [email |-> e.did, slack |-> "none", raised |-> TRUE, logged |-> e.logged,
                payload |-> <<>>]
          ELSE
            LET k == IF cfg.notifications.slack.enabled
                     THEN send_slack_notifications(as, slack_result)
                     ELSE Skipped
            IN  [email |-> e.did, slack |-> k.did, raised |-> k.raised,
                 logged |-> e.logged + k.logged, payload |-> k.payload]

\* Who called run_health_checks and gets the batch: main under --once, which
\* prints it, or the monitoring loop, which generates alerts from it.
after_scan_ignoring_once(once) == "Alerting"

after_scan(once) == IF once THEN "Printing" ELSE "Alerting"

\* The loop's "except Exception" clause: where the main thread goes.
on_exception_stop == "Stopped"

on_exception_propagate == "Crashed"

on_exception == "Backoff"


\* ------------------------------------------------- configurations, targets

http_endpoint == [keys |-> {"url", "timeout", "expected_status"},
                  url |-> "web", timeout |-> 5, expected_status |-> 200]
http_endpoint_no_url == [http_endpoint EXCEPT !.keys = {"timeout"}]

database == [keys |-> {"type", "host", "port", "username", "password", "timeout"},
             type |-> "postgresql", host |-> "db", port |-> 5432, timeout |-> 5]
database_oracle == [database EXCEPT !.type = "oracle"]
database_no_type == [database EXCEPT !.keys = {"host", "port"}]

certificate == [keys |-> {"hostname", "port"}, hostname |-> "site", port |-> 443]
certificate_no_hostname == [certificate EXCEPT !.keys = {"port"}]

Nominal == Beh("response", 200, 120, "")

HttpCases ==
    {[cfg |-> http_endpoint, beh |-> b] :
        b \in {Nominal, Beh("response", 200, 1500, ""), Beh("response", 500, 120, ""),
               Beh("timeout", 0, 0, ""), Beh("no_module", 0, 0, "")}}
    \cup {[cfg |-> http_endpoint_no_url, beh |-> Nominal]}

DbCases ==
    {[cfg |-> database, beh |-> b] :
        b \in {Beh("connected", 0, 20, ""),
               Beh("exception", 0, 0, "password authentication failed"),
               Beh("timeout", 0, 0, "timeout expired"),
               Beh("no_module", 0, 0, ""), Beh("no_reply", 0, 0, "")}}
    \cup {[cfg |-> database_oracle, beh |-> Beh("connected", 0, 20, "")],
          [cfg |-> database_no_type, beh |-> Beh("connected", 0, 20, "")]}

SslCases ==
    {[cfg |-> certificate, beh |-> b] :
        b \in {Beh("certificate", 0, 90 * hours_per_day, ""), Beh("certificate", 0, 5 * hours_per_day, ""),
               Beh("timeout", 0, 0, "timed out")}}
    \cup {[cfg |-> certificate_no_hostname, beh |-> Beh("certificate", 0, 90 * hours_per_day, "")]}

AtMostOne(S) == {<<>>} \cup {<<x>> : x \in S}

\* One more unanswering database than the pool has workers, then a live target.
Saturating ==
    [h |-> <<>>,
     d |-> [i \in 1..max_workers |->
              [cfg |-> [database EXCEPT !.port = 5432 + i], beh |-> Beh("no_reply", 0, 0, "")]],
     s |-> <<[cfg |-> certificate, beh |-> Beh("certificate", 0, 90 * hours_per_day, "")]>>]

Workloads ==
    {[h |-> h, d |-> d, s |-> s] :
        h \in AtMostOne(HttpCases), d \in AtMostOne(DbCases), s \in AtMostOne(SslCases)}

BoundedWorkloads ==
    {w \in Workloads : Len(w.h) + Len(w.d) + Len(w.s) <= MaxProbes} \cup {Saturating}

Cfgs(cases) == [i \in 1..Len(cases) |-> cases[i].cfg]
Behs(cases) == [i \in 1..Len(cases) |-> cases[i].beh]

\* The notifications table after loading: both channels with their flags (one
\* enabled at least), or a user table that replaced the default one and names
\* email only.
NotificationCases ==
    {[keys |-> {"email", "slack"}, email |-> [enabled |-> f[1]], slack |-> [enabled |-> f[2]]] :
        f \in {<<TRUE, TRUE>>, <<TRUE, FALSE>>, <<FALSE, TRUE>>}}
    \cup {[keys |-> {"email"}, email |-> [enabled |-> TRUE], slack |-> [enabled |-> FALSE]]}

Partition(mountpoint, used, total, denied) ==
    [mountpoint |-> mountpoint, used |-> used, total |-> total, denied |-> denied]

SysCases ==
    {[psutil |-> TRUE, cpu_percent |-> 50, memory_percent |-> 50,
      disk_partitions |-> <<Partition("/", 50, 100, FALSE)>>],
     [psutil |-> TRUE, cpu_percent |-> 96, memory_percent |-> 90,
      disk_partitions |-> <<Partition("/", 85, 100, FALSE), Partition("/root", 0, 0, TRUE)>>],
     [psutil |-> FALSE, cpu_percent |-> 0, memory_percent |-> 0, disk_partitions |-> <<>>]}

\* main's command line: the continuous loop, or --once with either --output.
ArgCases ==
    {[once |-> FALSE, output |-> "text"],
     [once |-> TRUE, output |-> "text"],
     [once |-> TRUE, output |-> "json"]}

\* _load_config: the defaults, updated with the user's tables.
load_config(w, n) ==
    [default_config EXCEPT
        !.checks = [http_endpoints |-> Cfgs(w.h), databases |-> Cfgs(w.d),
                    ssl_certificates |-> Cfgs(w.s)],
        !.notifications = n]

\* ------------------------------------------------------------------- state

\* What holds of every start of main(), whatever the configuration.
Started ==
    /\ output = <<>>
    /\ loop = "Idle"
    /\ cycle = 0
    /\ futures = <<>>
    /\ checks = <<>>
    /\ health_checks = <<>>
    /\ cycle_alerts = <<>>
    /\ alerts = <<>>
    /\ sent = NotSent
    /\ last_error = "none"
    /\ failures = 0
    /\ delay = 0
    /\ interrupted = FALSE

Init ==
    /\ args \in ArgCases
    /\ \E w \in BoundedWorkloads, n \in NotificationCases, y \in SysCases :
          /\ config = load_config(w, n)
          /\ env = [probes |-> Behs(w.h) \o Behs(w.d) \o Behs(w.s), sys |-> y]
    /\ Started

\* The exception reaches "except Exception" of run_monitoring_loop: it is
\* logged and the loop sleeps 30 seconds.
Caught(where) ==
    /\ last_error' = where
    /\ failures' = failures + 1
    /\ loop' = on_exception
    /\ delay' = backoff_seconds

\* ------------------------------------------------------- run_health_checks

\* A loop iteration begins: the executor is created and every probe submitted.
StartScan ==
    /\ loop \in {"Idle", "Sleeping", "Backoff"}
    /\ cycle < MaxCycles
    /\ cycle' = cycle + 1
    /\ loop' = "Scanning"
    /\ futures' = [i \in 1..NumProbes |-> "pending"]
    /\ checks' = <<>>
    /\ cycle_alerts' = <<>>
    /\ sent' = NotSent
    /\ last_error' = "none"
    /\ delay' = 0
    /\ UNCHANGED <<args, output, config, env, health_checks, alerts, failures, interrupted>>

\* A free worker takes the next queued call.
WorkerStart ==
    /\ loop \in {"Scanning", "ScanAborting"}
    /\ Pending # {}
    /\ WorkerFree
    /\ futures' = [futures EXCEPT ![NextQueued] = "running"]
    /\ UNCHANGED <<args, output, config, env, loop, cycle, checks, health_checks, cycle_alerts,
                   alerts, sent, last_error, failures, delay, interrupted>>

\* A running probe returns or raises; one that blocks never does.
ProbeFinish(i) ==
    /\ futures[i] = "running"
    /\ ProbeOutcome(i).outcome # "blocked"
    /\ futures' = [futures EXCEPT ![i] = "finished"]
    /\ UNCHANGED <<args, output, config, env, loop, cycle, checks, health_checks, cycle_alerts,
                   alerts, sent, last_error, failures, delay, interrupted>>

Collect_losing_append(i) ==
    /\ loop = "Scanning"
    /\ futures[i] = "finished"
    /\ futures' = [futures EXCEPT ![i] = "collected"]
    /\ checks' = IF ProbeOutcome(i).outcome = "returned"
                    /\ \A j \in 1..Len(futures) : j # i => futures[j] # "finished"
                 THEN Append(checks, ProbeOutcome(i).value[1])
                 ELSE checks
    /\ UNCHANGED <<args, output, config, env, loop, cycle, health_checks, cycle_alerts,
                   alerts, sent, last_error, failures, delay, interrupted>>

\* as_completed yields a finished future: its result is appended, or its
\* exception logged.
Collect(i) ==
    /\ loop = "Scanning"
    /\ futures[i] = "finished"
    /\ futures' = [futures EXCEPT ![i] = "collected"]
    /\ checks' = IF ProbeOutcome(i).outcome = "returned"
                 THEN Append(checks, ProbeOutcome(i).value[1])
                 ELSE checks
    /\ UNCHANGED <<args, output, config, env, loop, cycle, health_checks, cycle_alerts,
                   alerts, sent, last_error, failures, delay, interrupted>>

\* The with block is left, the system checks are appended and the batch is
\* returned: to the loop, which stores it, or to main, which is about to print
\* it. An exception of the system checks reaches the loop's except clause;
\* under --once nothing catches it and the process ends with a traceback.
FinishScan ==
    /\ loop = "Scanning"
    /\ AllCollected
    /\ LET r == check_system_resources(config.thresholds, env.sys, cycle)
       IN  IF r.outcome = "raised"
           THEN /\ IF args.once
                   THEN /\ loop' = "Aborted"
                        /\ last_error' = "run_health_checks"
                        /\ UNCHANGED <<failures, delay>>
                   ELSE Caught("run_health_checks")
                /\ UNCHANGED <<checks, health_checks>>
           ELSE /\ checks' = extend(checks, r.value[1])
                /\ health_checks' = IF args.once THEN health_checks ELSE checks'
                /\ loop' = after_scan(args.once)
                /\ UNCHANGED <<last_error, failures, delay>>
    /\ UNCHANGED <<args, output, config, env, cycle, futures, cycle_alerts, alerts, sent, interrupted>>

\* main under --once: the batch is formatted (json.dumps or generate_report)
\* and printed, and the process ends.
PrintOutput ==
    /\ loop = "Printing"
    /\ output' = <<[format |-> args.output, checks |-> checks]>>
    /\ loop' = "Exited"
    /\ UNCHANGED <<args, config, env, cycle, futures, checks, health_checks, cycle_alerts,
                   alerts, sent, last_error, failures, delay, interrupted>>

\* ----------------------------------------------------- run_monitoring_loop

GenerateAlerts_replacing_history ==
    /\ loop = "Alerting"
    /\ cycle_alerts' = generate_alerts(health_checks)
    /\ alerts' = cycle_alerts'
    /\ loop' = "Notifying"
    /\ UNCHANGED <<args, output, config, env, cycle, futures, checks, health_checks, sent,
                   last_error, failures, delay, interrupted>>

GenerateAlerts_suppressing_repeats ==
    /\ loop = "Alerting"
    /\ cycle_alerts' =
          SelectSeq(generate_alerts(health_checks),
                    LAMBDA a : \A j \in 1..Len(alerts) :
                                  alerts[j].message # a.message \/ alerts[j].level # a.level)
    /\ alerts' = alerts \o cycle_alerts'
    /\ loop' = "Notifying"
    /\ UNCHANGED <<args, output, config, env, cycle, futures, checks, health_checks, sent,
                   last_error, failures, delay, interrupted>>

GenerateAlerts ==
    /\ loop = "Alerting"
    /\ cycle_alerts' = generate_alerts(health_checks)
    /\ alerts' = alerts \o cycle_alerts'
    /\ loop' = "Notifying"
    /\ UNCHANGED <<args, output, config, env, cycle, futures, checks, health_checks, sent,
                   last_error, failures, delay, interrupted>>

\* "if alerts: send_notifications(alerts)", the summary log and the sleep.
Notify ==
    /\ loop = "Notifying"
    /\ \E email_result \in {"ok", "failed"}, slack_result \in {"ok", "failed"} :
         LET r == IF cycle_alerts # <<>>
                  THEN send_notifications(config, cycle_alerts, email_result, slack_result)
                  ELSE NotSent
         IN  /\ sent' = r
             /\ IF r.raised
                THEN Caught("send_notifications")
                ELSE /\ loop' = "Sleeping"
                     /\ delay' = config.monitoring_interval
                     /\ UNCHANGED <<last_error, failures>>
    /\ UNCHANGED <<args, output, config, env, cycle, futures, checks, health_checks, cycle_alerts,
                   alerts, interrupted>>

\* KeyboardInterrupt in the main thread. Inside the try block it reaches
\* "except KeyboardInterrupt" (from a scan, after the with block has waited
\* for the pool); in time.sleep(30) of the except clause nothing catches it.
\* The operator interrupts the continuous loop only.
Interrupt ==
    /\ ~args.once
    /\ loop \in {"Scanning", "Alerting", "Notifying", "Sleeping", "Backoff"}
    /\ interrupted' = TRUE
    /\ loop' = CASE loop = "Scanning" -> "ScanAborting"
                 [] loop = "Backoff" -> "Crashed"
                 [] OTHER -> "Stopped"
    /\ UNCHANGED <<args, output, config, env, cycle, futures, checks, health_checks, cycle_alerts,
                   alerts, sent, last_error, failures, delay>>

\* The interrupted scan's executor has shut down: "Monitoring stopped by user".
AbortDone ==
    /\ loop = "ScanAborting"
    /\ PoolDrained
    /\ loop' = "Stopped"
    /\ UNCHANGED <<args, output, config, env, cycle, futures, checks, health_checks, cycle_alerts,
                   alerts, sent, last_error, failures, delay, interrupted>>

Next ==
    \/ StartScan
    \/ WorkerStart
    \/ \E i \in 1..Len(futures) : ProbeFinish(i)
    \/ \E i \in 1..Len(futures) : Collect(i)
    \/ FinishScan
    \/ PrintOutput
    \/ GenerateAlerts
    \/ Notify
    \/ Interrupt
    \/ AbortDone

Spec == Init /\ [][Next]_vars

\* The threads run: whatever the main thread or a worker can do, it does.
\* An interrupt may never come.
Fairness ==
    /\ WF_vars(StartScan)
    /\ WF_vars(WorkerStart)
    /\ WF_vars(\E i \in 1..Len(futures) : ProbeFinish(i))
    /\ WF_vars(\E i \in 1..Len(futures) : Collect(i))
    /\ WF_vars(FinishScan)
    /\ WF_vars(PrintOutput)
    /\ WF_vars(GenerateAlerts)
    /\ WF_vars(Notify)
    /\ WF_vars(AbortDone)

FairSpec == Spec /\ Fairness


\* ------------------------------------------------ construction, _load_config

\* Before _load_config has returned self.config does not exist.
NoConfig == [unset |-> TRUE]

\* dict.update: every top-level key of the user's document replaces the
\* default's value, whole.
dict_update(d, u) == [k \in DOMAIN d |-> IF k \in u.keys THEN u[k] ELSE d[k]]

\* The except clause of _load_config logs through self.logger, which __init__
\* assigns only after _load_config has returned: AttributeError.
on_load_error_logged == Returned(default_config)

on_load_error == Raised("AttributeError")

\* _load_config(config_file), given what the file holds.
load_config_file(config_file, file) ==
    IF config_file = "" THEN Returned(default_config)
    ELSE IF file.kind # "valid" THEN on_load_error
    ELSE Returned(dict_update(default_config, file.doc))

\* Names getattr(logging, ...) finds a level for.
logging_levels == {"DEBUG", "INFO", "WARNING", "ERROR", "CRITICAL"}

\* A user document: the top-level keys it has, and their values.
UserConfig(keys, http_endpoints, thresholds, notifications, interval, log_level) ==
    [keys |-> keys,
     checks |-> [http_endpoints |-> http_endpoints, databases |-> <<>>,
                 ssl_certificates |-> <<>>],
     thresholds |-> thresholds, notifications |-> notifications,
     monitoring_interval |-> interval, log_level |-> log_level]

\* A thresholds table that sets the CPU warning threshold only.
thresholds_cpu_only ==
    [default_thresholds EXCEPT !.keys = {"cpu_warning"}, !.cpu_warning = 70]

\* A notifications table that configures the email channel only.
notifications_email_only ==
    [keys |-> {"email"}, email |-> [enabled |-> TRUE], slack |-> [enabled |-> FALSE]]

notifications_both ==
    [keys |-> {"email", "slack"}, email |-> [enabled |-> TRUE], slack |-> [enabled |-> TRUE]]

\* Documents that give every table in full, that omit tables, and that omit
\* fields inside a table; and one whose log_level names no logging level.
UserConfigs ==
    {UserConfig(k, <<http_endpoint>>, t, n, 30, "INFO") :
        k \in {{"checks", "thresholds", "notifications", "monitoring_interval"},
               {"checks", "thresholds", "notifications"},
               {"checks", "notifications"},
               {"checks", "thresholds"},
               {"checks"}},
        t \in {default_thresholds, thresholds_cpu_only},
        n \in {notifications_both, notifications_email_only}}
    \cup {UserConfig({"monitoring_interval"}, <<>>, default_thresholds, notifications_both,
                     30, "INFO"),
          UserConfig({"checks", "log_level"}, <<http_endpoint>>, default_thresholds,
                     notifications_both, 30, "VERBOSE")}

\* What the path given with --config holds: nothing readable, text that is no
\* JSON object, or a document.
ConfigFiles ==
    {[kind |-> "unreadable", doc |-> UserConfig({}, <<>>, default_thresholds,
                                               notifications_both, 30, "INFO")],
     [kind |-> "malformed", doc |-> UserConfig({}, <<>>, default_thresholds,
                                              notifications_both, 30, "INFO")]}
    \cup {[kind |-> "valid", doc |-> u] : u \in UserConfigs}

StartupInit ==
    /\ \E a \in ArgCases, path \in {"", "monitor.json"}, f \in ConfigFiles,
          y \in {s \in SysCases : s.psutil}, slow \in BOOLEAN :
          LET r == load_config_file(path, f)
          IN  /\ path = "" => f.kind = "unreadable"
              /\ args = [once |-> a.once, output |-> a.output, config_file |-> path]
              /\ env = [probes |->
                           IF r.outcome = "returned"
                           THEN [i \in 1..Len(r.value[1].checks.http_endpoints) |->
                                   IF slow THEN Beh("response", 200, 1500, "") ELSE Nominal]
                           ELSE <<>>,
                        sys |-> y, file |-> f]
    /\ config = NoConfig
    /\ output = <<>>
    /\ loop = "Starting"
    /\ cycle = 0
    /\ futures = <<>>
    /\ checks = <<>>
    /\ health_checks = <<>>
    /\ cycle_alerts = <<>>
    /\ alerts = <<>>
    /\ sent = NotSent
    /\ last_error = "none"
    /\ failures = 0
    /\ delay = 0
    /\ interrupted = FALSE

\* InfrastructureMonitor(config_file=args.config): _load_config, then the
\* logging set-up with the configured log_level. An exception of either leaves
\* __init__ and main.
Construct ==
    /\ loop = "Starting"
    /\ LET r == load_config_file(args.config_file, env.file)
       IN  IF r.outcome = "raised"
           THEN /\ loop' = "Failed"
                /\ last_error' = "_load_config"
                /\ UNCHANGED config
           ELSE /\ config' = r.value[1]
                /\ IF r.value[1].log_level \in logging_levels
                   THEN loop' = "Idle" /\ UNCHANGED last_error
                   ELSE loop' = "Failed" /\ last_error' = "__init__"
    /\ UNCHANGED <<args, output, env, cycle, futures, checks, health_checks, cycle_alerts,
                   alerts, sent, failures, delay, interrupted>>

StartupSpec == StartupInit /\ [][Construct \/ Next]_vars

\* -------------------------------------- readings at and around thresholds

\* An endpoint that leaves timeout and expected_status to their defaults, and
\* one that expects 204.
http_endpoint_defaults == [http_endpoint EXCEPT !.keys = {"url"}]
http_endpoint_204 == [http_endpoint EXCEPT !.expected_status = 204]

\* Every answer of a reachable endpoint: three status codes, response times on
\* and next to both thresholds; and the unreachable endpoint.
HttpReadings ==
    {[cfg |-> c, beh |-> b] :
        c \in {http_endpoint, http_endpoint_defaults, http_endpoint_204},
        b \in {Beh("response", sc, ms, "") :
                  sc \in {200, 204, 500}, ms \in {120, 1000, 1001, 5000, 5001}}
              \cup {Beh("timeout", 0, 0, ""), Beh("connection_error", 0, 0, "")}}

\* Hours left on a certificate: expired, 5 days, one hour short of 7 days,
\* 7 days, 20 days, one hour short of 30 days, 30 days, 90 days.
SslReadings ==
    {[cfg |-> certificate, beh |-> Beh("certificate", 0, h, "")] :
        h \in {0 - 1, 5 * hours_per_day, 7 * hours_per_day - 1, 7 * hours_per_day,
               20 * hours_per_day, 30 * hours_per_day - 1, 30 * hours_per_day,
               90 * hours_per_day}}

\* psutil readings on and just above the warning and critical thresholds.
SysReadings ==
    {[psutil |-> TRUE, cpu_percent |-> r[1], memory_percent |-> r[2],
      disk_partitions |-> <<Partition("/", r[3], 100, FALSE)>>] :
        r \in {<<80, 85, 80>>, <<81, 86, 81>>, <<95, 95, 90>>, <<96, 96, 91>>}}

\* One probe with one of the readings and quiet system resources, or no probe
\* and one of the system readings.
ClassifyInit ==
    /\ args \in ArgCases
    /\ \E w \in {[h |-> <<x>>, d |-> <<>>, s |-> <<>>] : x \in HttpReadings}
                \cup {[h |-> <<>>, d |-> <<>>, s |-> <<x>>] : x \in SslReadings}
                \cup {[h |-> <<>>, d |-> <<>>, s |-> <<>>]},
          y \in SysCases \cup SysReadings :
          /\ (y \in SysReadings) = (w.h = <<>> /\ w.s = <<>>)
          /\ y \notin SysReadings => (y.psutil /\ y.cpu_percent = 50)
          /\ config = load_config(w, CHOOSE n \in NotificationCases :
                                        Has(n, "slack") /\ n.email.enabled /\ n.slack.enabled)
          /\ env = [probes |-> Behs(w.h) \o Behs(w.s), sys |-> y]
    /\ Started

ClassifySpec == ClassifyInit /\ [][Next]_vars

\* ------------------------------------------- more probes than pool workers

\* One more certificate entry than the pool has workers, all for the same live
\* target.
Crowded ==
    [h |-> <<>>, d |-> <<>>,
     s |-> [i \in 1..(max_workers + 1) |->
              [cfg |-> certificate, beh |-> Beh("certificate", 0, 90 * hours_per_day, "")]]]

\* A single run-once scan of the crowded configuration; the saturating one and
\* a single certificate under the continuous loop.
PoolInit ==
    /\ \E w \in {Crowded, Saturating, [Crowded EXCEPT !.s = SubSeq(Crowded.s, 1, 1)]} :
          /\ args = [once |-> w = Crowded, output |-> "text"]
          /\ config = load_config(w, CHOOSE n \in NotificationCases :
                                        Has(n, "slack") /\ n.email.enabled /\ n.slack.enabled)
          /\ env = [probes |-> Behs(w.h) \o Behs(w.d) \o Behs(w.s),
                    sys |-> CHOOSE y \in SysCases : y.psutil /\ y.cpu_percent = 50]
    /\ Started

PoolSpec == PoolInit /\ [][Next]_vars

\* ------------------------------------------- generate_alerts called directly

\* Batches a caller can hand to generate_alerts: every mix of the four
\* statuses, up to MaxBatch results.
BatchInputs ==
    UNION {{[i \in 1..n |->
                HealthCheck(Name("HTTP", "", "web", i), st[i], Message("OK", i, ""), i,
                            IF st[i] = CRITICAL THEN "timeout" ELSE "")] :
            st \in [1..n -> HealthStatus]} : n \in 0..MaxBatch}

AlertInit ==
    /\ args = [once |-> FALSE, output |-> "text"]
    /\ output = <<>>
    /\ config = default_config
    /\ env = [probes |-> <<>>, sys |-> CHOOSE y \in SysCases : y.psutil /\ y.cpu_percent = 50]
    /\ loop = "Alerting"
    /\ cycle = 1
    /\ futures = <<>>
    /\ health_checks \in BatchInputs
    /\ checks = health_checks
    /\ cycle_alerts = <<>>
    /\ alerts = <<>>
    /\ sent = NotSent
    /\ last_error = "none"
    /\ failures = 0
    /\ delay = 0
    /\ interrupted = FALSE

AlertSpec == AlertInit /\ [][GenerateAlerts]_vars

\* ---------------------------------------- send_notifications called directly

\* Every notifications table: NotificationCases and both channels disabled.
DispatchTables ==
    NotificationCases
    \cup {[keys |-> {"email", "slack"}, email |-> [enabled |-> FALSE],
           slack |-> [enabled |-> FALSE]]}

\* Alert lists a caller can hand to send_notifications, the empty one included.
AlertInputs == {generate_alerts(b) : b \in BatchInputs}

DispatchInit ==
    /\ args = [once |-> FALSE, output |-> "text"]
    /\ output = <<>>
    /\ \E n \in DispatchTables : config = [default_config EXCEPT !.notifications = n]
    /\ env = [probes |-> <<>>, sys |-> CHOOSE y \in SysCases : y.psutil /\ y.cpu_percent = 50]
    /\ loop = "Dispatching"
    /\ cycle = 1
    /\ futures = <<>>
    /\ checks = <<>>
    /\ health_checks = <<>>
    /\ cycle_alerts \in AlertInputs
    /\ alerts = cycle_alerts
    /\ sent = NotSent
    /\ last_error = "none"
    /\ failures = 0
    /\ delay = 0
    /\ interrupted = FALSE

\* send_notifications(alerts) runs to its return or to the exception that
\* leaves it.
Dispatch ==
    /\ loop = "Dispatching"
    /\ \E email_result \in {"ok", "failed"}, slack_result \in {"ok", "failed"} :
         LET r == send_notifications(config, cycle_alerts, email_result, slack_result)
         IN  /\ sent' = r
             /\ loop' = IF r.raised THEN "DispatchRaised" ELSE "DispatchReturned"
    /\ UNCHANGED <<args, output, config, env, cycle, futures, checks, health_checks,
                   cycle_alerts, alerts, last_error, failures, delay, interrupted>>

DispatchSpec == DispatchInit /\ [][Dispatch]_vars

\* ----------------------------------------------- long alert lists dispatched

\* Alert lists of up to MaxAlerts warning and critical alerts, numbered.
LongAlertInputs ==
    UNION {{[j \in 1..n |->
                Alert(lv[j], [name |-> Name("HTTP", "", "web", j), message |-> Message("OK", j, "")],
                      1, [error |-> ""])] :
            lv \in [1..n -> {WARNING, CRITICAL}]} : n \in 0..MaxAlerts}

PayloadInit ==
    /\ args = [once |-> FALSE, output |-> "text"]
    /\ output = <<>>
    /\ config = [default_config EXCEPT !.notifications = notifications_both]
    /\ env = [probes |-> <<>>, sys |-> CHOOSE y \in SysCases : y.psutil /\ y.cpu_percent = 50]
    /\ loop = "Dispatching"
    /\ cycle = 1
    /\ futures = <<>>
    /\ checks = <<>>
    /\ health_checks = <<>>
    /\ cycle_alerts \in LongAlertInputs
    /\ alerts = cycle_alerts
    /\ sent = NotSent
    /\ last_error = "none"
    /\ failures = 0
    /\ delay = 0
    /\ interrupted = FALSE

PayloadSpec == PayloadInit /\ [][Dispatch]_vars

\* ------------------------------------------------------------------ claims

Done(i) == futures[i] \in {"finished", "collected"}

\* The loop holds the batch its current cycle's scan returned.
BatchReturned == loop \in {"Alerting", "Notifying", "Sleeping"}

InBatch(c, batch) == \E j \in 1..Len(batch) : batch[j] = c
Occurrences(c, batch) == Cardinality({j \in 1..Len(batch) : batch[j] = c})

\* C1: when run_health_checks has returned, its batch holds exactly one result
\* for each configured HTTP endpoint, database and certificate target,
\* whatever the probes did (a probe that raised included).
C1_OneResultPerProbe ==
    BatchReturned =>
        \A i \in 1..NumProbes :
            /\ ProbeOutcome(i).outcome = "returned"
            /\ Occurrences(ProbeOutcome(i).value[1], health_checks) = 1

\* C2: run_health_checks never raises into its caller, a failure of the
\* system-resource check included, and every element of a batch has one of
\* the four severities.
C2_CoordinatorNeverRaises ==
    /\ last_error # "run_health_checks"
    /\ \A j \in 1..Len(health_checks) : health_checks[j].status \in HealthStatus

Incomplete(p) ==
    CASE p.kind = "http" -> ~Has(p.cfg, "url")
      [] p.kind = "db" -> \E k \in {"type", "host", "port", "username", "password"} :
                              ~Has(p.cfg, k)
      [] OTHER -> ~Has(p.cfg, "hostname")

Unsupported(p) ==
    p.kind = "db" /\ Has(p.cfg, "type") /\ p.cfg.type \notin supported_db_types

\* Probe i meets an error: of its target, of its configuration or of a library.
Faulty(i) ==
    \/ env.probes[i].kind \in {"timeout", "connection_error", "exception", "no_module"}
    \/ Incomplete(Probes(config)[i])
    \/ Unsupported(Probes(config)[i])

\* C3: a probe that has ended has returned a HealthCheck, never raised; when
\* it met an error the HealthCheck is Critical and details.error holds the
\* error.
C3_ProbeErrorsBecomeCritical ==
    \A i \in 1..Len(futures) :
        Done(i) =>
            /\ ProbeOutcome(i).outcome = "returned"
            /\ Faulty(i) =>
                  /\ ProbeOutcome(i).value[1].status = CRITICAL
                  /\ ProbeOutcome(i).value[1].details.error # ""

NonHealthy(batch) == SelectSeq(batch, LAMBDA c : c.status # HEALTHY)

\* C4: after generate_alerts, there is one alert for each result whose
\* severity is not Healthy (Unknown included) and none for the others: the
\* alerts are, in order, those of the non-Healthy results.
C4_AlertIffNotHealthy ==
    loop = "Notifying" =>
        /\ Len(cycle_alerts) = Len(NonHealthy(health_checks))
        /\ \A j \in 1..Len(cycle_alerts) :
              /\ cycle_alerts[j].level = NonHealthy(health_checks)[j].status
              /\ cycle_alerts[j].message.name = NonHealthy(health_checks)[j].name

\* C5: an exception inside a cycle sends the loop to the 30-second backoff
\* and never ends it; from the backoff, as from the sleep that ends a cycle,
\* the loop can start the next scan and does nothing else; only an interrupt
\* ends the loop.
C5_LoopSurvivesExceptions ==
    /\ [](loop \in {"Stopped", "Crashed"} => interrupted)
    /\ [](loop = "Backoff" =>
            /\ last_error # "none"
            /\ delay = backoff_seconds
            /\ cycle < MaxCycles => ENABLED StartScan)
    /\ [][/\ failures' > failures => loop' = "Backoff"
          /\ (loop \in {"Backoff", "Sleeping"} /\ loop' # loop) =>
                (loop' = "Scanning" \/ interrupted')]_vars

\* A scan has started after a cycle that ended in the except clause.
C5_Witness == failures >= 1 /\ loop = "Scanning" /\ ~interrupted

\* The timeout a probe is configured with.
TimeoutOf(p) ==
    IF p.kind \in {"http", "db"} THEN Get(p.cfg, "timeout", default_timeout)
    ELSE default_timeout

\* C6: no probe runs without an end, and a probe whose target exceeds the
\* probe's timeout ends with a Critical result "Timeout after Ns", N being
\* the timeout of its configuration.
C6_TimeoutBoundsEveryProbe ==
    \A i \in 1..Len(futures) :
        /\ futures[i] = "running" => ProbeOutcome(i).outcome # "blocked"
        /\ (Done(i) /\ env.probes[i].kind = "timeout"
                /\ ProbeOutcome(i).outcome = "returned") =>
              /\ ProbeOutcome(i).value[1].status = CRITICAL
              /\ ProbeOutcome(i).value[1].message =
                    Message("Timeout after", TimeoutOf(Probes(config)[i]), "")

\* C7: a probe whose target answers is never kept waiting for a worker by
\* probes whose targets never answer.
C7_UnansweringProbeBlocksNoOther ==
    \A i \in Pending :
        ProbeOutcome(i).outcome # "blocked" =>
            \/ WorkerFree
            \/ \E j \in Running : ProbeOutcome(j).outcome # "blocked"

\* C8: when generate_alerts is invoked, and from then to the end of the cycle,
\* no probe of the cycle is queued or running, and the batch passed on holds
\* the result of every probe that returned one, followed by the system checks.
C8_BatchCompleteBarrier ==
    loop \in {"Alerting", "Notifying"} =>
        /\ \A i \in 1..Len(futures) : futures[i] \notin {"pending", "running"}
        /\ Len(futures) = NumProbes
        /\ \A i \in 1..Len(futures) :
              ProbeOutcome(i).outcome = "returned" =>
                  InBatch(ProbeOutcome(i).value[1], health_checks)
        /\ \E j \in 1..Len(health_checks) : health_checks[j].name.prefix = "System"

\* generate_alerts is about to run on the batch of a scan of several probes.
C8_Witness ==
    /\ loop = "Alerting"
    /\ Len(futures) >= 2
    /\ \A i \in 1..Len(futures) : ProbeOutcome(i).outcome = "returned"

Enabled(channel) ==
    Has(config.notifications, channel) /\ config.notifications[channel].enabled

\* C9: with both channels configured, a failed send is logged and leaves
\* send_notifications returning normally to the loop; when both are enabled
\* and one fails, the other has been attempted in the same dispatch.
C9_ChannelFailureIsolated ==
    ({"email", "slack"} \subseteq config.notifications.keys
        /\ (sent.email = "failed" \/ sent.slack = "failed")) =>
        /\ ~sent.raised
        /\ last_error = "none"
        /\ sent.logged = Cardinality({c \in {"email", "slack"} : sent[c] = "failed"})
        /\ (Enabled("email") /\ Enabled("slack")) =>
              (sent.email # "none" /\ sent.slack # "none")

\* The email send failed, the webhook post was made, and the cycle went on.
C9_Witness ==
    /\ Enabled("email") /\ Enabled("slack")
    /\ sent.email = "failed" /\ sent.slack = "ok"
    /\ loop = "Sleeping"

\* C10: a channel on which a send was attempted is enabled.
C10_DisabledChannelNeverInvoked ==
    \A c \in {"email", "slack"} : sent[c] # "none" => Enabled(c)

\* Alerts were dispatched to the webhook while email was disabled.
C10_Witness ==
    /\ cycle_alerts # <<>>
    /\ loop = "Sleeping"
    /\ ~Enabled("email")
    /\ sent.slack # "none" /\ sent.email = "none"

\* C11: a dispatch with an empty alert list is a no-op: send_notifications
\* returns without invoking the email or the Slack sender and without raising,
\* whatever the channels' enabled flags and whatever the table holds.
C11_EmptyDispatchIsNoOp ==
    (loop \in {"DispatchReturned", "DispatchRaised"} /\ cycle_alerts = <<>>)
        => (sent = NotSent /\ loop = "DispatchReturned")

C11_Witness ==
    /\ loop = "DispatchReturned"
    /\ cycle_alerts = <<>>
    /\ Enabled("email")
    /\ Enabled("slack")

\* The classification the thresholds are specified to give: the boundary value
\* belongs to the worse side.
Inclusive(value, warn, crit) ==
    IF value >= crit THEN CRITICAL ELSE IF value >= warn THEN WARNING ELSE HEALTHY

InclusiveInverted(value, warn, crit) ==
    IF value <= crit THEN CRITICAL ELSE IF value <= warn THEN WARNING ELSE HEALTHY

Measured(c, prefix, scheme, texts) ==
    c.name.prefix = prefix /\ c.name.scheme = scheme /\ c.message.text \in texts

\* C12: every result that classifies a measurement against thresholds is
\* inclusive on the worse side: response time, CPU, memory and disk equal to the
\* critical threshold are Critical and equal to the warning threshold are
\* Warning; days to expiry equal to the critical threshold are Critical and
\* equal to the warning threshold are Warning.
C12_InclusiveThresholds ==
    \A j \in 1..Len(checks) :
        LET c == checks[j]
            t == config.thresholds
        IN  /\ Measured(c, "HTTP", "", {"OK", "Slow response"})
                  => c.status = Inclusive(c.message.arg, t.response_time_warning,
                                          t.response_time_critical)
            /\ Measured(c, "System", "CPU Usage", {"CPU usage"})
                  => c.status = Inclusive(c.message.arg, t.cpu_warning, t.cpu_critical)
            /\ Measured(c, "System", "Memory Usage", {"Memory usage"})
                  => c.status = Inclusive(c.message.arg, t.memory_warning, t.memory_critical)
            /\ Measured(c, "System", "Disk Usage", {"Disk usage"})
                  => c.status = Inclusive(c.message.arg, t.disk_warning, t.disk_critical)
            /\ Measured(c, "SSL", "", {"Certificate expires in", "Certificate valid for"})
                  => c.status = InclusiveInverted(c.message.arg, cert_warning_days,
                                                  cert_critical_days)

CertificateRead(i) ==
    Probes(config)[i].kind = "ssl" /\ env.probes[i].kind = "certificate" /\ Done(i)

\* C13: a certificate probe that read the peer certificate returns Critical
\* when fewer than 7 days remain, Warning when at least 7 and fewer than 30
\* remain, Healthy when 30 or more remain; the days it reports are the whole
\* days remaining, rounded down (5 days out is Critical, 20 Warning, 90 Healthy).
C13_CertificateByWholeDays ==
    \A i \in 1..Len(futures) :
        CertificateRead(i) =>
            LET left == env.probes[i].value
                r == ProbeOutcome(i)
            IN  /\ r.outcome = "returned"
                /\ r.value[1].status =
                       IF left < cert_critical_days * hours_per_day THEN CRITICAL
                       ELSE IF left < cert_warning_days * hours_per_day THEN WARNING
                       ELSE HEALTHY
                /\ r.value[1].message.arg * hours_per_day <= left
                /\ left < (r.value[1].message.arg + 1) * hours_per_day
                /\ left = 5 * hours_per_day => r.value[1].status = CRITICAL
                /\ left = 20 * hours_per_day => r.value[1].status = WARNING
                /\ left = 90 * hours_per_day => r.value[1].status = HEALTHY

\* One hour short of seven days: six whole days, Critical.
C13_Witness ==
    \E i \in 1..Len(futures) :
        /\ CertificateRead(i)
        /\ futures[i] = "collected"
        /\ env.probes[i].value = cert_critical_days * hours_per_day - 1
        /\ InBatch(ProbeOutcome(i).value[1], checks)
        /\ ProbeOutcome(i).value[1].status = CRITICAL

HttpProbed(i) == Probes(config)[i].kind = "http" /\ Done(i)

ExpectedStatus(endpoint) ==
    IF Has(endpoint, "expected_status") THEN endpoint.expected_status
    ELSE default_expected_status

\* C14: an HTTP probe's result is other than Critical only if the endpoint
\* answered and its status code equals the expected one (200 unless
\* configured); an answer with another status code is Critical and its message
\* carries that status code, whatever the response time.
C14_StatusMismatchIsCritical ==
    \A i \in 1..Len(futures) :
        HttpProbed(i) =>
            LET endpoint == Probes(config)[i].cfg
                beh == env.probes[i]
                r == ProbeOutcome(i)
            IN  /\ (r.outcome = "returned" /\ r.value[1].status # CRITICAL)
                      => (beh.kind = "response"
                             /\ beh.status_code = ExpectedStatus(endpoint))
                /\ (Has(endpoint, "url") /\ beh.kind = "response"
                        /\ beh.status_code # ExpectedStatus(endpoint))
                      => /\ r.outcome = "returned"
                         /\ r.value[1].status = CRITICAL
                         /\ r.value[1].message =
                                Message("Unexpected status code", beh.status_code, "")

\* A fast 200 from an endpoint expected to answer 204.
C14_Witness ==
    \E i \in 1..Len(futures) :
        /\ HttpProbed(i)
        /\ futures[i] = "collected"
        /\ ExpectedStatus(Probes(config)[i].cfg) = 204
        /\ env.probes[i] = Beh("response", 200, 120, "")
        /\ InBatch(ProbeOutcome(i).value[1], checks)
        /\ ProbeOutcome(i).value[1].status = CRITICAL

\* C15: in continuous mode, once an interrupt has been delivered no scan
\* starts any more; a scan in progress is not cut short: every probe that runs
\* keeps running until it finishes, and the loop has stopped only when no
\* submitted probe is queued or running.
C15_InterruptStopsBetweenScans ==
    /\ [](interrupted => loop \in {"ScanAborting", "Stopped", "Crashed"})
    /\ [](loop \in {"Stopped", "Crashed"}
            => \A i \in 1..Len(futures) : futures[i] \notin {"pending", "running"})
    /\ [][interrupted => cycle' = cycle]_vars
    /\ [][\A i \in 1..Len(futures) :
            futures[i] = "running"
                => (Len(futures') = Len(futures)
                       /\ futures'[i] \in {"running", "finished"})]_vars

\* The interrupt has arrived while one probe runs and another is queued.
C15_Witness ==
    /\ ~args.once
    /\ interrupted
    /\ loop = "ScanAborting"
    /\ Running # {}
    /\ Pending # {}

\* C16: under --once the monitor runs exactly one scan, of every configured
\* probe, prints the batch that scan returned and ends; it never sleeps, never
\* backs off, and never starts a second scan.
C16_RunOnceScansOnce ==
    args.once =>
        /\ cycle <= 1
        /\ loop \in {"Idle", "Scanning", "Printing", "Exited", "Aborted"}
        /\ delay = 0
        /\ failures = 0
        /\ output # <<>> => loop = "Exited"
        /\ loop = "Exited" =>
              /\ cycle = 1
              /\ Len(futures) = NumProbes
              /\ AllCollected
              /\ output = <<[format |-> args.output, checks |-> checks]>>
              /\ \A j \in 1..Len(checks) : checks[j].timestamp = 1
              /\ ~ENABLED Next

C16_Witness ==
    /\ args.once
    /\ loop = "Exited"
    /\ NumProbes = 2
    /\ Len(output[1].checks) >= 4

\* The cycle's dispatch step is over: the loop sleeps, or backs off from an
\* exception that left send_notifications.
DispatchOver ==
    loop = "Sleeping" \/ (loop = "Backoff" /\ last_error = "send_notifications")

\* C17: under --once no alert is ever generated and no channel ever invoked,
\* whatever the batch holds; in continuous mode every cycle whose batch has a
\* result that is not Healthy generates an alert for each such result and
\* hands them to every enabled channel.
C17_AlertsOnlyInContinuousMode ==
    /\ args.once => (cycle_alerts = <<>> /\ alerts = <<>> /\ sent = NotSent)
    /\ (~args.once /\ DispatchOver /\ NonHealthy(health_checks) # <<>>) =>
          /\ Len(cycle_alerts) = Len(NonHealthy(health_checks))
          /\ \A j \in 1..Len(cycle_alerts) :
                cycle_alerts[j].message.name = NonHealthy(health_checks)[j].name
          /\ \A channel \in {"email", "slack"} :
                Enabled(channel) => sent[channel] # "none"

\* The second cycle of a continuous run has dispatched on both channels.
C17_Witness ==
    /\ ~args.once
    /\ cycle = 2
    /\ loop = "Sleeping"
    /\ \E j \in 1..Len(health_checks) : health_checks[j].status = WARNING
    /\ \A j \in 1..Len(health_checks) : health_checks[j].status # CRITICAL
    /\ sent.email # "none"
    /\ sent.slack # "none"

\* The steps of a loop iteration, in order, with the except clause's way
\* back to the next scan.
LoopOrder ==
    {<<"Idle", "Scanning">>, <<"Scanning", "Alerting">>, <<"Alerting", "Notifying">>,
     <<"Notifying", "Sleeping">>, <<"Sleeping", "Scanning">>,
     <<"Scanning", "Backoff">>, <<"Notifying", "Backoff">>, <<"Backoff", "Scanning">>}

\* C18: a continuous-mode iteration runs scan, alert generation, notification
\* and sleep in that order, each step after the previous one has ended, and
\* then the next scan; the notification step always follows a completed scan
\* of the same cycle; the loop leaves this order only on an interrupt, so it
\* ends only by an interrupt and never by a failure inside a cycle.
C18_CycleOrder ==
    /\ [][(~args.once /\ loop' # loop)
            => (<<loop, loop'>> \in LoopOrder \/ (interrupted'
                    /\ loop' \in {"ScanAborting", "Stopped", "Crashed"}))]_vars
    /\ []((~args.once /\ loop \in {"Notifying", "Sleeping"}) =>
            /\ cycle >= 1
            /\ AllCollected
            /\ health_checks = checks
            /\ \A j \in 1..Len(health_checks) : health_checks[j].timestamp = cycle
            /\ cycle_alerts = generate_alerts(health_checks))
    /\ []((~args.once /\ sent # NotSent) => (cycle >= 1 /\ health_checks = checks))
    /\ []((~args.once /\ loop \notin {"Idle", "Scanning", "Alerting", "Notifying",
                                       "Sleeping", "Backoff"}) => interrupted)

\* The first cycle failed in its notification step; the second has scanned
\* and generated its alerts and is about to notify.
C18_Witness ==
    /\ ~args.once
    /\ cycle = 2
    /\ failures = 1
    /\ loop = "Notifying"
    /\ cycle_alerts # <<>>

\* How far a submitted call has come.
Rank(state) ==
    CASE state = "pending" -> 0 [] state = "running" -> 1
      [] state = "finished" -> 2 [] OTHER -> 3

\* C19: at no moment do more than max_workers (10) probes execute; a queued
\* probe starts only when a worker is free; within a scan a probe never
\* starts a second time, and when the scan has returned every configured
\* probe, those that had to wait included, has executed.
C19_PoolBoundsConcurrency ==
    /\ [](Cardinality(Running) <= max_workers)
    /\ [][\A i \in 1..Len(futures) :
            cycle' = cycle =>
                /\ Len(futures') = Len(futures)
                /\ Rank(futures'[i]) \in {Rank(futures[i]), Rank(futures[i]) + 1}
                /\ (futures[i] = "pending" /\ futures'[i] = "running")
                      => Cardinality(Running) < max_workers]_vars
    /\ [](loop \in {"Printing", "Exited", "Alerting", "Notifying", "Sleeping"}
            => (Len(futures) = NumProbes /\ AllCollected))

\* Eleven probes on ten workers: the scan has returned with a result of each.
C19_Witness ==
    /\ NumProbes = max_workers + 1
    /\ loop = "Printing"
    /\ AllCollected
    /\ Len(SelectSeq(checks, LAMBDA c : c.name.prefix = "SSL")) = NumProbes

IsSystem(c) == c.name.prefix = "System"

\* C20: the system-resource checks are one call made by the coordinator itself
\* after every probe submitted to the pool has finished and been collected;
\* its results are the tail of the batch, after all probe results.
C20_SystemChecksLast ==
    /\ (\E j \in 1..Len(checks) : IsSystem(checks[j]))
          => (Len(futures) = NumProbes /\ AllCollected)
    /\ \A j, k \in 1..Len(checks) :
          (IsSystem(checks[j]) /\ ~IsSystem(checks[k])) => k < j
    /\ \A i \in 1..Len(futures) : Probes(config)[i].kind \in {"http", "db", "ssl"}
    /\ loop \in {"Printing", "Exited", "Alerting", "Notifying", "Sleeping"} =>
          LET r == check_system_resources(config.thresholds, env.sys, cycle)
              n == Len(checks) - Len(r.value[1])
          IN  /\ r.outcome = "returned"
              /\ n >= 0
              /\ SubSeq(checks, n + 1, Len(checks)) = r.value[1]
              /\ \A j \in 1..n : ~IsSystem(checks[j])

\* Two probe results followed by the CPU, memory and disk results.
C20_Witness ==
    /\ loop = "Alerting"
    /\ NumProbes = 2
    /\ Len(checks) = 5
    /\ ~IsSystem(checks[2])
    /\ IsSystem(checks[3])

\* The monitor was constructed from a document the --config file holds.
LoadedFrom(doc) ==
    /\ loop \notin {"Starting", "Failed"}
    /\ args.config_file # ""
    /\ env.file.kind = "valid"
    /\ doc = env.file.doc

Omitted(doc, table, field) == table \notin doc.keys \/ field \notin doc[table].keys

\* C21: after loading a document that omits fields, at any nesting level,
\* every omitted field is present with its default (each threshold, each
\* notification channel, the interval), and no scan or dispatch fails on a
\* missing configuration key.
C21_OmittedFieldsDefault ==
    \A doc \in UserConfigs :
        LoadedFrom(doc) =>
            /\ \A k \in threshold_keys :
                  /\ Has(config.thresholds, k)
                  /\ Omitted(doc, "thresholds", k)
                        => config.thresholds[k] = default_thresholds[k]
            /\ \A c \in {"email", "slack"} :
                  /\ Has(config.notifications, c)
                  /\ Omitted(doc, "notifications", c)
                        => config.notifications[c] = default_config.notifications[c]
            /\ "monitoring_interval" \notin doc.keys
                  => config.monitoring_interval = default_config.monitoring_interval
            /\ failures = 0

\* A path was given with --config and what it holds cannot be read or parsed.
BadFile == args.config_file # "" /\ env.file.kind # "valid"

\* The document that was read names no logging level.
BadLogLevel ==
    /\ args.config_file # ""
    /\ env.file.kind = "valid"
    /\ "log_level" \in env.file.doc.keys
    /\ env.file.doc.log_level \notin logging_levels

LargestBatch == NumProbes + 2 + Len(env.sys.disk_partitions)

\* C23: the alert history kept across cycles is capped: however many cycles
\* have run, it is never longer than a bound that does not depend on the
\* number of cycles (here: the alerts one cycle can produce).
C23_AlertHistoryCapped ==
    Len(alerts) <= LargestBatch

\* The alerts the history holds from cycle c.
AlertsOf(c) == SelectSeq(alerts, LAMBDA a : a.timestamp = c)

\* The cycle has generated its alerts.
AlertsGenerated == loop = "Notifying" \/ DispatchOver

\* C24: nothing is suppressed across cycles: the alerts of a cycle are those
\* of its own batch, whatever earlier cycles alerted; a target that stays
\* non-Healthy is alerted in every cycle (the history holds as many alerts
\* from each earlier cycle as from this one), and each alerting cycle hands
\* its alerts to every enabled channel.
C24_NoCrossCycleSuppression ==
    (~args.once /\ AlertsGenerated) =>
        /\ cycle_alerts = generate_alerts(health_checks)
        /\ \A c \in 1..cycle : Len(AlertsOf(c)) = Len(cycle_alerts)
        /\ AlertsOf(cycle) = cycle_alerts
        /\ (DispatchOver /\ cycle_alerts # <<>>) =>
              \A channel \in {"email", "slack"} :
                  Enabled(channel) => sent[channel] # "none"

\* The second cycle alerted and sent what the first had alerted and sent.
C24_Witness ==
    /\ ~args.once
    /\ cycle = 2
    /\ loop = "Sleeping"
    /\ cycle_alerts # <<>>
    /\ Len(AlertsOf(1)) = Len(cycle_alerts)
    /\ sent.email = "ok"
    /\ sent.slack = "ok"

\* Probe i has returned a result and as_completed has handed it over.
CollectedResult(i) == futures[i] = "collected" /\ ProbeOutcome(i).outcome = "returned"

\* C25: the batch is appended to by the coordinator's thread alone, one result
\* per step; whatever the order in which probes complete, the result of each
\* probe that completed with one is in the batch exactly once, and no result
\* of a probe not yet collected is in it.
C25_AppendsSerialized ==
    /\ [](\A i \in 1..Len(futures) :
            Occurrences(ProbeOutcome(i).value, [j \in 1..Len(checks) |-> <<checks[j]>>])
                = IF CollectedResult(i) THEN 1 ELSE 0)
    /\ [](loop = "Scanning" =>
            Len(checks) = Cardinality({i \in 1..Len(futures) : CollectedResult(i)}))
    /\ [][(loop = "Scanning" /\ loop' = "Scanning" /\ checks' # checks) =>
            \E i \in 1..Len(futures) :
                /\ futures[i] = "finished"
                /\ futures' = [futures EXCEPT ![i] = "collected"]
                /\ checks' = Append(checks, ProbeOutcome(i).value[1])]_vars

\* Both probes returned and the second submitted was collected first.
C25_Witness ==
    /\ loop = "Scanning"
    /\ Len(futures) = 2
    /\ CollectedResult(1)
    /\ CollectedResult(2)
    /\ checks = <<ProbeOutcome(2).value[1], ProbeOutcome(1).value[1]>>

\* C26: the payload posted to the chat webhook has colour "danger" exactly
\* when the dispatched list holds a critical alert, and "warning" otherwise;
\* its text has the messages of the first 10 alerts of the list, in order, and
\* no more; its title states the number of all alerts of the list.
C26_SlackPayload ==
    (loop \in {"DispatchReturned", "DispatchRaised"} /\ sent.slack # "none") =>
        /\ Len(sent.payload) = 1
        /\ LET p == sent.payload[1]
                critical == \E j \in 1..Len(cycle_alerts) : cycle_alerts[j].level = CRITICAL
           IN  /\ p.color = (IF critical THEN "danger" ELSE "warning")
               /\ Len(p.text) <= 10
               /\ Len(p.text) = (IF Len(cycle_alerts) <= 10 THEN Len(cycle_alerts) ELSE 10)
               /\ \A j \in 1..Len(p.text) : p.text[j] = cycle_alerts[j].message
               /\ p.title = Len(cycle_alerts)

\* Eleven alerts, the only critical one last: "danger", ten lines, count 11.
C26_Witness ==
    /\ loop = "DispatchReturned"
    /\ sent.slack = "ok"
    /\ Len(cycle_alerts) = 11
    /\ cycle_alerts[11].level = CRITICAL
    /\ \A j \in 1..10 : cycle_alerts[j].level = WARNING
    /\ sent.payload[1].color = "danger"
    /\ Len(sent.payload[1].text) = 10

\* The results generate_alerts derives an alert from.
Alerting(batch) == SelectSeq(batch, LAMBDA c : c.status \in {WARNING, CRITICAL})

\* C27: each alert generate_alerts returns has the level, the timestamp and
\* the details of the result it derives from, and as message that result's
\* name followed by its message; the call leaves the results it was given and
\* the monitor's state as they were (the loop then extends the history with
\* the returned list).
C27_AlertDerivationPure ==
    /\ [](loop = "Notifying" =>
            /\ Len(cycle_alerts) = Len(Alerting(health_checks))
            /\ \A j \in 1..Len(cycle_alerts) :
                  LET a == cycle_alerts[j]
                      c == Alerting(health_checks)[j]
                  IN  /\ a.level = c.status
                      /\ a.timestamp = c.timestamp
                      /\ a.details = c.details
                      /\ a.message = [name |-> c.name, message |-> c.message]
                      /\ a.source = "infrastructure_monitor")
    /\ [][loop = "Alerting" =>
            /\ health_checks' = health_checks
            /\ checks' = checks
            /\ config' = config
            /\ sent' = sent
            /\ alerts' = alerts \o cycle_alerts']_vars

\* A critical and a warning result around a healthy one gave two alerts.
C27_Witness ==
    /\ loop = "Notifying"
    /\ Len(health_checks) = 3
    /\ health_checks[1].status = CRITICAL
    /\ health_checks[2].status = HEALTHY
    /\ health_checks[3].status = WARNING
    /\ Len(cycle_alerts) = 2
    /\ cycle_alerts[2].timestamp = 3

\* C28: no result of a scan is Unknown: every result collected or returned
\* is Healthy, Warning or Critical, so the alerts a cycle generates are, one
\* for one and in order, the results of its batch that are not Healthy.
C28_NoUnknownFromProbes ==
    /\ \A j \in 1..Len(checks) : checks[j].status \in {HEALTHY, WARNING, CRITICAL}
    /\ \A j \in 1..Len(health_checks) :
          health_checks[j].status \in {HEALTHY, WARNING, CRITICAL}
    /\ \A i \in 1..Len(futures) :
          ProbeOutcome(i).outcome = "returned" => ProbeOutcome(i).value[1].status # UNKNOWN
    /\ (~args.once /\ AlertsGenerated) =>
          /\ Len(cycle_alerts) = Len(NonHealthy(health_checks))
          /\ \A j \in 1..Len(cycle_alerts) :
                /\ cycle_alerts[j].level = NonHealthy(health_checks)[j].status
                /\ cycle_alerts[j].message.name = NonHealthy(health_checks)[j].name

\* A certificate probe that could not connect: Critical, and alerted.
C28_Witness ==
    /\ ~args.once
    /\ loop = "Notifying"
    /\ \E i \in 1..Len(futures) :
          /\ Probes(config)[i].kind = "ssl"
          /\ env.probes[i].kind = "timeout"
          /\ InBatch(ProbeOutcome(i).value[1], health_checks)
          /\ ProbeOutcome(i).value[1].status = CRITICAL
    /\ Len(cycle_alerts) = Len(NonHealthy(health_checks))

\* C29: in continuous mode health_checks changes only when a scan returns,
\* and then to that scan's batch; the alert history changes only by having
\* the cycle's alerts appended, after the scan and before any channel is
\* tried; a scan that raises changes neither.
C29_StateTracksCompletedScans ==
    /\ []((~args.once /\ loop = "Notifying") =>
            /\ health_checks = checks
            /\ \A j \in 1..Len(health_checks) : health_checks[j].timestamp = cycle
            /\ Len(alerts) >= Len(cycle_alerts)
            /\ SubSeq(alerts, Len(alerts) - Len(cycle_alerts) + 1, Len(alerts)) = cycle_alerts
            /\ sent = NotSent)
    /\ [][health_checks' # health_checks =>
            (loop = "Scanning" /\ loop' = "Alerting" /\ health_checks' = checks')]_vars
    /\ [][alerts' # alerts =>
            /\ loop = "Alerting"
            /\ sent = NotSent
            /\ alerts' = alerts \o generate_alerts(health_checks)]_vars
    /\ [][(loop = "Scanning" /\ loop' \notin {"Scanning", "Alerting"}) =>
            (health_checks' = health_checks /\ alerts' = alerts)]_vars

\* The second cycle's alerts stand behind the first's, nothing sent yet.
C29_Witness ==
    /\ ~args.once
    /\ cycle = 2
    /\ loop = "Notifying"
    /\ sent = NotSent
    /\ cycle_alerts # <<>>
    /\ Len(alerts) = 2 * Len(cycle_alerts)
    /\ AlertsOf(2) = cycle_alerts

\* C30: an interrupt delivered in any state of the continuous loop, the
\* backoff delay after a failed cycle included, ends the loop through
\* "Monitoring stopped by user": no exception leaves run_monitoring_loop.
C30_InterruptStopsCleanly ==
    (~args.once /\ interrupted) => loop \in {"ScanAborting", "Stopped"}

====
